---- MODULE Spec2Model ----
(***************************************************************************)
(* A model of the labeling application of src/app.py: the item catalog,    *)
(* the report files, the per-(doctor, modality) label files, the Streamlit  *)
(* script main() as it is re-run for every interaction of a browser tab,    *)
(* and the load-modify-save operations save_label and delete_label, both as *)
(* whole operations (Spec, SpecSubmit, SpecTabs, SpecSessions, SpecStores,  *)
(* SpecCatalog, SpecCorrupt, SpecReport, SpecHistory) and step by step      *)
(* (SpecConc); and the whitelist generator of                               *)
(* src/generate_doctor_whitelist.py (SpecGenerator).                        *)
(*                                                                         *)
(* Text the code computes on (file names, buckets, label keys, reasoning,  *)
(* report files) is a sequence of one-character strings, so that           *)
(* concatenation, splitting, stripping and sorting are computed as the     *)
(* code computes them.  Text the code only stores and compares is a string.*)
(***************************************************************************)
EXTENDS Integers, Sequences, FiniteSets, TLC

VARIABLES
    images,      \* data/<modality>/images/<difficulty>: the file names in each directory
    reports,     \* data/<modality>/reports/<difficulty>: the text of each file, by file name
    whitelist,   \* doctor_whitelist.json: [exists, list]
    files,       \* doctor_labels/<modality>/doctor_<id>.json: [exists, content]
    clock,       \* datetime.datetime.now(), as a logical instant
    tabs,        \* per browser tab: the widgets, st.session_state and the page shown
    saved,       \* per label file: the mapping last passed to save_doctor_labels
    thr,         \* per thread of SpecConc: its position in save_label / delete_label
    generator,   \* the DoctorWhitelistGenerator of generate_doctor_whitelist.py: [whitelist]
    entered      \* per browser tab, a history variable: what the labeling page showed
                 \* when the previous labels were opened from it, forgotten when the
                 \* tab leaves them or a label file is written

vars == <<images, reports, whitelist, files, clock, tabs, saved, thr, generator, entered>>

----------------------------------------------------------------------------
(* Bounds of the model *)

\* label writes (instants of the clock) in one behaviour
MaxWrites == 3

\* the window of show_previous_labels: list(doctor_labels.items())[-20:]
HistoryWindow == 20

----------------------------------------------------------------------------
(* Text *)

\* the characters of the model in code-point order, for Python's str comparison
Alphabet == <<" ", ".", "/", "a", "b", "d", "e", "g", "h", "i", "j", "m", "n", "p", "r", "s", "t", "u", "x", "y">>

Ord(c) == CHOOSE i \in 1..Len(Alphabet) : Alphabet[i] = c

RECURSIVE LexLess(_, _)
LexLess(a, b) ==
    IF a = <<>> THEN b # <<>>
    ELSE IF b = <<>> THEN FALSE
    ELSE IF Head(a) = Head(b) THEN LexLess(Tail(a), Tail(b))
    ELSE Ord(Head(a)) < Ord(Head(b))

EndsWith(s, suffix) ==
    /\ Len(s) >= Len(suffix)
    /\ SubSeq(s, Len(s) - Len(suffix) + 1, Len(s)) = suffix

\* str.strip(): leading and trailing white space removed
RECURSIVE LStrip(_)
LStrip(s) == IF s # <<>> /\ Head(s) = " " THEN LStrip(Tail(s)) ELSE s

RECURSIVE RStrip(_)
RStrip(s) == IF s # <<>> /\ s[Len(s)] = " " THEN RStrip(SubSeq(s, 1, Len(s) - 1)) ELSE s

Strip(s) == RStrip(LStrip(s))

\* value of a missing dictionary entry (dict.get)
None == "<None>"

Get(d, field) == IF field \in DOMAIN d THEN d[field] ELSE None

\* Python truthiness of a value that is None or a str
Truthy(x) == x # None /\ x # ""

----------------------------------------------------------------------------
(* Constants of src/app.py *)

MODALITIES == <<"CXR", "MRI">>

ModalitySet == {MODALITIES[i] : i \in 1..Len(MODALITIES)}

EASY == <<"e", "a", "s", "y">>
MEDIUM == <<"m", "e", "d", "i", "u", "m">>
HARD == <<"h", "a", "r", "d">>

\* the buckets in the order of their names
DIFFICULTIES_by_name == <<EASY, HARD, MEDIUM>>

DIFFICULTIES == <<EASY, MEDIUM, HARD>>

DifficultySet == {DIFFICULTIES[i] : i \in 1..Len(DIFFICULTIES)}

\* the extensions of list_image_files, in its order
ImageExts == << <<".", "p", "n", "g">>, <<".", "j", "p", "g">>, <<".", "j", "p", "e", "g">>, <<".", "b", "m", "p">> >>

----------------------------------------------------------------------------
(* Item catalog *)

\* glob.glob(os.path.join(images_dir, '*.ext')): names ending in .ext, hidden files excluded
GlobExt(dir, ext) == {f \in dir : EndsWith(f, ext) /\ Head(f) # "."}

\* sorted(): the ascending sequence of a set of distinct names
RECURSIVE Sorted(_)
Sorted(S) ==
    IF S = {} THEN <<>>
    ELSE LET least == CHOOSE x \in S : \A y \in S \ {x} : LexLess(x, y)
         IN  <<least>> \o Sorted(S \ {least})

list_image_files(dir) ==
    Sorted(UNION {GlobExt(dir, ImageExts[i]) : i \in 1..Len(ImageExts)})

\* the items of one difficulty directory, in the order of its sorted file names
BucketItems(modality, difficulty, filenames) ==
    [i \in 1..Len(filenames) |->
        [filename |-> filenames[i], modality |-> modality, difficulty |-> difficulty]]

RECURSIVE load_image_data_from(_, _, _)
load_image_data_from(dirs, modality, i) ==
    IF i > Len(DIFFICULTIES) THEN <<>>
    ELSE BucketItems(modality, DIFFICULTIES[i], list_image_files(dirs[modality][DIFFICULTIES[i]]))
         \o load_image_data_from(dirs, modality, i + 1)

load_image_data(dirs, modality) == load_image_data_from(dirs, modality, 1)

\* a key that is the file name alone
make_label_key_filename_only(difficulty, filename) == filename

make_label_key(difficulty, filename) == difficulty \o <<"/">> \o filename

\* label_key.split('/', 1): the text before and after the first '/'
SplitKey(label_key) ==
    LET i == CHOOSE j \in 1..Len(label_key) :
                 label_key[j] = "/" /\ \A h \in 1..(j - 1) : label_key[h] # "/"
    IN  <<SubSeq(label_key, 1, i - 1), SubSeq(label_key, i + 1, Len(label_key))>>

----------------------------------------------------------------------------
(* Report text of an item *)

\* os.path.splitext: the name up to its last dot and the extension from that dot on,
\* dots at the start of the name not counted
Splitext(filename) ==
    LET dots == {i \in 1..Len(filename) :
                    filename[i] = "." /\ \E j \in 1..(i - 1) : filename[j] # "."}
    IN  IF dots = {} THEN <<filename, <<>>>>
        ELSE LET last == CHOOSE i \in dots : \A j \in dots : j <= i
             IN  <<SubSeq(filename, 1, last - 1), SubSeq(filename, last, Len(filename))>>

DOT_TXT == <<".", "t", "x", "t">>
DOT_EHR_TXT == <<".", "e", "h", "r", ".", "t", "x", "t">>
DOT_REPORT_TXT == <<".", "r", "e", "p", "o", "r", "t", ".", "t", "x", "t">>

\* candidate_names with the report extension tried first
candidate_names_report_first(base) ==
    <<base \o DOT_REPORT_TXT, base \o DOT_TXT, base \o DOT_EHR_TXT>>

\* candidate_names (src/app.py 107)
candidate_names(base) == <<base \o DOT_TXT, base \o DOT_EHR_TXT, base \o DOT_REPORT_TXT>>

REPORT_NOT_FOUND ==
    <<"R", "e", "p", "o", "r", "t", " ", "n", "o", "t", " ", "f", "o", "u", "n", "d">>

\* the loop of load_ehr_text over the candidate names from the i-th on
RECURSIVE load_ehr_text_from(_, _, _)
load_ehr_text_from(reports_dir, names, i) ==
    IF i > Len(names) THEN REPORT_NOT_FOUND
    ELSE IF names[i] \in DOMAIN reports_dir THEN Strip(reports_dir[names[i]])
    ELSE load_ehr_text_from(reports_dir, names, i + 1)

load_ehr_text(reps, filename, modality, difficulty) ==
    load_ehr_text_from(reps[modality][difficulty], candidate_names(Splitext(filename)[1]), 1)

----------------------------------------------------------------------------
(* Label store: a dict in insertion order, as a sequence of [k, v] entries *)

Keys(labels) == [i \in 1..Len(labels) |-> labels[i].k]

KeySet(labels) == {labels[i].k : i \in 1..Len(labels)}

HasKey(labels, key) == key \in KeySet(labels)

Lookup(labels, key) == labels[CHOOSE i \in 1..Len(labels) : labels[i].k = key].v

\* an assignment that keeps only the record it replaces
SetItem_alone(labels, key, value) ==
    IF HasKey(labels, key)
    THEN <<[k |-> key, v |-> value]>>
    ELSE Append(labels, [k |-> key, v |-> value])

\* an assignment that removes the key before it adds it, at the end
SetItem_at_end(labels, key, value) ==
    Append(SelectSeq(labels, LAMBDA e : e.k # key), [k |-> key, v |-> value])

\* doctor_labels[label_key] = label_data: in place for a key present, appended otherwise
SetItem(labels, key, value) ==
    IF HasKey(labels, key)
    THEN [i \in 1..Len(labels) |-> IF labels[i].k = key THEN [k |-> key, v |-> value] ELSE labels[i]]
    ELSE Append(labels, [k |-> key, v |-> value])

\* del doctor_labels[label_key]
DelItem(labels, key) == SelectSeq(labels, LAMBDA e : e.k # key)

\* a list's first n elements: xs[:n]
LastN_from_start(xs, n) == IF Len(xs) <= n THEN xs ELSE SubSeq(xs, 1, n)

\* a list's last n elements: xs[-n:]
LastN(xs, n) == IF Len(xs) <= n THEN xs ELSE SubSeq(xs, Len(xs) - n + 1, Len(xs))

----------------------------------------------------------------------------
(* Label files: json.dump / json.load *)

\* The text of a label file is a sequence of tokens: the braces of the JSON
\* object, one token per "key": {record} member, and the zero filling that a
\* write past the end of a truncated file leaves behind.
OpenBrace == [t |-> "{"]
CloseBrace == [t |-> "}"]
NulFill == [t |-> "nul"]

Member(e) == [t |-> "member", k |-> e.k, v |-> e.v]

\* json.dump with sort_keys=True: the members in the order of their keys
json_dump_sort_keys(labels) ==
    <<OpenBrace>>
    \o [i \in 1..Len(labels) |->
           [t |-> "member", k |-> Sorted(KeySet(labels))[i],
            v |-> Lookup(labels, Sorted(KeySet(labels))[i])]]
    \o <<CloseBrace>>

\* json.dump(labels, f, indent=2): the members in the dict's order between braces
json_dump(labels) ==
    <<OpenBrace>> \o [i \in 1..Len(labels) |-> Member(labels[i])] \o <<CloseBrace>>

RECURSIVE DictOfMembers(_, _)
DictOfMembers(members, acc) ==
    IF members = <<>> THEN acc
    ELSE DictOfMembers(Tail(members), SetItem(acc, Head(members).k, Head(members).v))

\* a load that takes a text it cannot parse for an empty dict
json_load_lenient(content) ==
    IF /\ Len(content) >= 2
       /\ content[1] = OpenBrace
       /\ content[Len(content)] = CloseBrace
       /\ \A i \in 2..(Len(content) - 1) : content[i].t = "member"
    THEN [ok |-> TRUE, labels |-> DictOfMembers(SubSeq(content, 2, Len(content) - 1), <<>>)]
    ELSE [ok |-> TRUE, labels |-> <<>>]

\* json.load(f): the dict of a complete JSON object, JSONDecodeError (ok = FALSE) otherwise
json_load(content) ==
    IF /\ Len(content) >= 2
       /\ content[1] = OpenBrace
       /\ content[Len(content)] = CloseBrace
       /\ \A i \in 2..(Len(content) - 1) : content[i].t = "member"
    THEN [ok |-> TRUE, labels |-> DictOfMembers(SubSeq(content, 2, Len(content) - 1), <<>>)]
    ELSE [ok |-> FALSE, labels |-> <<>>]

NoFile == [exists |-> FALSE, content |-> <<>>]

\* one label file per doctor, whatever the modality
get_doctor_file_path_one_per_doctor(doctor_id, modality) == <<doctor_id, MODALITIES[1]>>

get_doctor_file_path(doctor_id, modality) == <<doctor_id, modality>>

load_doctor_labels(fs, doctor_id, modality) ==
    LET f == fs[get_doctor_file_path(doctor_id, modality)]
    IN  IF f.exists THEN json_load(f.content) ELSE [ok |-> TRUE, labels |-> <<>>]

save_doctor_labels(fs, doctor_id, modality, labels) ==
    [fs EXCEPT ![get_doctor_file_path(doctor_id, modality)] =
        [exists |-> TRUE, content |-> json_dump(labels)]]

\* the record save_label builds (src/app.py 399-407)
label_data(now, difficulty, image_data, ehr_text, reasoning) ==
    [doctor_confidence |-> difficulty,
     timestamp |-> now,
     modality |-> image_data.modality,
     difficulty |-> image_data.difficulty,
     filename |-> image_data.filename,
     ehr_text |-> ehr_text,
     reasoning |-> IF reasoning # <<>> THEN Strip(reasoning) ELSE <<>>]

\* the mapping of a save_label that does not load the file first
save_label_labels_no_reload(fs, now, doctor_id, modality, label_key, difficulty, image_data, ehr_text, reasoning) ==
    SetItem(<<>>, label_key, label_data(now, difficulty, image_data, ehr_text, reasoning))

\* the mapping save_label passes to save_doctor_labels: the file reloaded, one key set
save_label_labels(fs, now, doctor_id, modality, label_key, difficulty, image_data, ehr_text, reasoning) ==
    SetItem(load_doctor_labels(fs, doctor_id, modality).labels, label_key,
            label_data(now, difficulty, image_data, ehr_text, reasoning))

\* save_label as one operation: the files after it
save_label(fs, now, doctor_id, modality, label_key, difficulty, image_data, ehr_text, reasoning) ==
    IF load_doctor_labels(fs, doctor_id, modality).ok
    THEN save_doctor_labels(fs, doctor_id, modality,
             save_label_labels(fs, now, doctor_id, modality, label_key, difficulty,
                               image_data, ehr_text, reasoning))
    ELSE fs

\* a delete that saves the mapping also when the key is absent
delete_label_always_saves(fs, doctor_id, modality, label_key) ==
    LET l == load_doctor_labels(fs, doctor_id, modality)
    IN  IF l.ok
        THEN save_doctor_labels(fs, doctor_id, modality, DelItem(l.labels, label_key))
        ELSE fs

\* delete_label as one operation: the files after it (unwritten when the key is absent)
delete_label(fs, doctor_id, modality, label_key) ==
    LET l == load_doctor_labels(fs, doctor_id, modality)
    IN  IF l.ok /\ HasKey(l.labels, label_key)
        THEN save_doctor_labels(fs, doctor_id, modality, DelItem(l.labels, label_key))
        ELSE fs

\* what delete_label returns: True after a delete, False for a key absent
delete_label_result(fs, doctor_id, modality, label_key) ==
    HasKey(load_doctor_labels(fs, doctor_id, modality).labels, label_key)

\* the category shown and re-saved for a stored record, with the fallback of its use
Confidence(rec, fallback) ==
    IF Truthy(Get(rec, "doctor_confidence")) THEN rec.doctor_confidence
    ELSE IF Truthy(Get(rec, "doctor_difficulty")) THEN rec.doctor_difficulty
    ELSE fallback

\* current_conf of "Save EHR Only" (src/app.py 480)
current_conf(rec) == Confidence(rec, "medium")

----------------------------------------------------------------------------
(* Authentication *)

load_whitelist(wl) == IF wl.exists THEN wl.list ELSE <<>>

\* an id with its letters in upper case
UpperCase(doctor_id) == IF doctor_id = "doc1" THEN "DOC1" ELSE doctor_id

\* an authentication that compares ids without regard to case
authenticate_doctor_any_case(wl, doctor_id) ==
    LET list == load_whitelist(wl)
    IN  IF list = <<>> THEN None
        ELSE IF doctor_id # ""
             THEN IF \E i \in 1..Len(list) : UpperCase(list[i]) = UpperCase(doctor_id)
                  THEN doctor_id ELSE None
             ELSE None

\* the doctor id authenticate_doctor returns, None when it returns (None, None)
authenticate_doctor(wl, doctor_id) ==
    LET list == load_whitelist(wl)
    IN  IF list = <<>> THEN None
        ELSE IF doctor_id # ""
             THEN IF \E i \in 1..Len(list) : list[i] = doctor_id THEN doctor_id ELSE None
             ELSE None

----------------------------------------------------------------------------
(* One run of the script main() *)

NoPage(view) == [view |-> view, current |-> <<>>, ehr_text |-> <<>>, history |-> <<>>]

\* the filter looking the file name up, not the label key
unlabeled_images_by_filename(image_data_list, doctor_labels) ==
    SelectSeq(image_data_list, LAMBDA img : ~HasKey(doctor_labels, img.filename))

\* the filter counting only rated items as labeled, not the skipped and dropped ones
unlabeled_images_rated_only(image_data_list, doctor_labels) ==
    SelectSeq(image_data_list,
              LAMBDA img :
                  \/ ~HasKey(doctor_labels, make_label_key(img.difficulty, img.filename))
                  \/ Get(Lookup(doctor_labels, make_label_key(img.difficulty, img.filename)),
                         "doctor_confidence") \in {"skipped", "dropped"})

\* unlabeled_images (src/app.py 288)
unlabeled_images(image_data_list, doctor_labels) ==
    SelectSeq(image_data_list,
              LAMBDA img : ~HasKey(doctor_labels, make_label_key(img.difficulty, img.filename)))

\* progress (src/app.py 266): the fraction len(doctor_labels_current) / len(image_data_list)
\* as numerator and denominator, the int 0 for an empty image_data_list
progress(doctor_labels_current, image_data_list) ==
    IF image_data_list # <<>>
    THEN [num |-> Len(doctor_labels_current), den |-> Len(image_data_list)]
    ELSE [num |-> 0, den |-> 1]

\* the keys show_previous_labels lists, each with its edit buttons
HistoryKeys(doctor_labels) == Keys(LastN(doctor_labels, HistoryWindow))

\* The page a run of main() ends on when no button is pressed in it.
RenderPage(dirs, reps, wl, fs, doctor_id_input, modality, show_previous_labels) ==
    LET doctor_id == authenticate_doctor(wl, doctor_id_input)
    IN  IF doctor_id = None THEN NoPage("Unauthenticated")
        ELSE LET image_data_list == load_image_data(dirs, modality)
                 l == load_doctor_labels(fs, doctor_id, modality)
                 unlabeled == unlabeled_images(image_data_list, l.labels)
             IN  IF ~l.ok THEN NoPage("Error")
                 ELSE IF show_previous_labels
                 THEN [view |-> "ViewingHistory", current |-> <<>>, ehr_text |-> <<>>,
                       history |-> HistoryKeys(l.labels)]
                 ELSE IF unlabeled = <<>>
                 THEN [view |-> "AllLabeled", current |-> <<>>, ehr_text |-> <<>>,
                       history |-> HistoryKeys(l.labels)]
                 ELSE [view |-> "Reviewing", current |-> <<unlabeled[1]>>,
                       ehr_text |-> load_ehr_text(reps, unlabeled[1].filename, modality,
                                                  unlabeled[1].difficulty),
                       history |-> <<>>]

----------------------------------------------------------------------------
(* The inputs of the model *)

Tabs == {"t1", "t2"}

\* the owners of label files: the ids of the whitelist
DoctorIds == {"DOC1", "DOC2"}

\* what is typed into "Enter your Doctor ID:"
DoctorInputs == {"", "DOC1", "doc1"}

\* A press of a button of the labeling page: the button (a rating, Skip or Drop) with
\* the contents of the report and reasoning text areas at that moment.
SubmitInputs ==
    {[difficulty |-> "low", ehr_text |-> "edited report", reasoning |-> <<" ", "r", " ">>],
     [difficulty |-> "skipped", ehr_text |-> "Report not found", reasoning |-> <<>>],
     [difficulty |-> "dropped", ehr_text |-> "Report not found", reasoning |-> <<" ">>]}

\* a press of a rating or Drop button of an entry of the previous labels
EditInputs ==
    {[difficulty |-> "high", ehr_text |-> "Report not found", reasoning |-> <<"r", "x">>]}

\* a press of "Save EHR Only" of an entry
EhrOnlyInputs ==
    {[ehr_text |-> "corrected report", reasoning |-> <<>>]}

A_PNG == <<"a", ".", "p", "n", "g">>
B_JPG == <<"b", ".", "j", "p", "g">>
N_TXT == <<"n", ".", "t", "x", "t">>

NoImages == [d \in DifficultySet |-> {}]

\* the image directories of a modality, a text file among the images
ImageLayouts ==
    {[m \in ModalitySet |->
        IF m = "CXR" THEN [NoImages EXCEPT ![EASY] = {B_JPG, A_PNG, N_TXT}, ![HARD] = {A_PNG}]
        ELSE NoImages],
     [m \in ModalitySet |->
        IF m = "CXR" THEN [NoImages EXCEPT ![MEDIUM] = {B_JPG}, ![HARD] = {A_PNG}]
        ELSE [NoImages EXCEPT ![EASY] = {A_PNG}]]}

\* a report directory without files
NoReportFiles == [name \in {} |-> <<>>]

NoReports == [m \in ModalitySet |-> [d \in DifficultySet |-> NoReportFiles]]

\* a report file of an image: the base of the image's name, an extension, the text
ReportFile(base, extension, text) == (<<base>> \o extension) :> text

\* the report directories: empty ones; all three files of a.png beside only the later
\* ones and a file named after the whole image name; texts with white space around
\* them and of white space only
ReportLayouts ==
    {NoReports,
     [m \in ModalitySet |->
        IF m = "CXR"
        THEN [d \in DifficultySet |->
                IF d = EASY THEN ReportFile("a", DOT_TXT, <<" ", "r", " ">>)
                                 @@ ReportFile("a", DOT_EHR_TXT, <<"e">>)
                                 @@ ReportFile("a", DOT_REPORT_TXT, <<"p">>)
                ELSE IF d = HARD THEN ReportFile("a", DOT_EHR_TXT, <<"e", " ">>)
                                      @@ ReportFile("a", DOT_REPORT_TXT, <<"p">>)
                ELSE ReportFile("b", DOT_REPORT_TXT, <<" ", "p">>)]
        ELSE [d \in DifficultySet |->
                IF d = EASY THEN (A_PNG \o DOT_TXT) :> <<"x">> ELSE NoReportFiles]],
     [m \in ModalitySet |->
        IF m = "CXR"
        THEN [d \in DifficultySet |->
                IF d = EASY THEN ReportFile("b", DOT_EHR_TXT, <<"e">>)
                                 @@ ReportFile("a", DOT_REPORT_TXT, <<>>)
                ELSE IF d = HARD THEN ReportFile("a", DOT_TXT, <<" ">>)
                ELSE ReportFile("b", DOT_TXT, <<"r">>) @@ ReportFile("b", DOT_EHR_TXT, <<"e">>)]
        ELSE [d \in DifficultySet |->
                IF d = EASY THEN ReportFile("a", DOT_REPORT_TXT, <<"p", " ">>)
                ELSE NoReportFiles]]}

\* the keys delete_label is called with
DeleteKeys == {make_label_key(HARD, A_PNG), make_label_key(EASY, A_PNG)}

\* records of a label file written before this version of the application: the
\* category under doctor_difficulty, and no category at all (src/app.py 298, 434, 480)
LegacyRecord ==
    [doctor_difficulty |-> "hard", timestamp |-> 0, modality |-> "CXR",
     difficulty |-> HARD, filename |-> A_PNG, ehr_text |-> "Report not found"]

UnratedRecord ==
    [timestamp |-> 0, modality |-> "CXR", difficulty |-> HARD, filename |-> A_PNG,
     ehr_text |-> "Report not found", reasoning |-> <<>>]

FileOf(labels) == [exists |-> TRUE, content |-> json_dump(labels)]

StoreIds == DoctorIds \X ModalitySet

\* the label files found at start-up: none, or one of DOC1 with an older record
InitialFiles ==
    {[id \in StoreIds |-> IF id = <<"DOC1", "CXR">> THEN f ELSE NoFile] :
        f \in {NoFile,
               FileOf(<<[k |-> make_label_key(HARD, A_PNG), v |-> LegacyRecord]>>),
               FileOf(<<[k |-> make_label_key(HARD, A_PNG), v |-> UnratedRecord]>>)}}

\* doctor_whitelist.json: with two ids, with an empty list, missing
WhitelistFiles ==
    {[exists |-> TRUE, list |-> <<"DOC1", "DOC2">>],
     [exists |-> TRUE, list |-> <<>>],
     [exists |-> FALSE, list |-> <<>>]}

----------------------------------------------------------------------------
(* Browser tabs: each interaction re-runs main() with the widget values of the tab *)

\* the page a run of main() shows for tab t over the label files fs
Shown(t, fs) ==
    RenderPage(images, reports, whitelist, fs, t.doctor_id, t.modality, t.show_previous_labels)

\* a run that also clears st.session_state on the login page
Settle_clears_session(t, page) ==
    [t EXCEPT !.page = page,
              !.modality = IF page.view = "Unauthenticated" THEN MODALITIES[1] ELSE @,
              !.show_previous_labels = IF page.view = "Unauthenticated" THEN FALSE ELSE @]

\* The tab after a run that ended on page: the modality selectbox is not rendered on the
\* unauthenticated page (src/app.py 239-245), and a widget that is not rendered loses its value.
Settle(t, page) ==
    [t EXCEPT !.page = page,
              !.modality = IF page.view = "Unauthenticated" THEN MODALITIES[1] ELSE @]

\* DoctorWhitelistGenerator.__init__ (src/generate_doctor_whitelist.py 32-34)
NewGenerator == [whitelist |-> <<>>]

\* no tab has the previous labels open with the label files as they were on entering
NotEntered == [s \in Tabs |-> <<>>]

NewSession ==
    [doctor_id |-> "", modality |-> MODALITIES[1], show_previous_labels |-> FALSE,
     page |-> NoPage("Unauthenticated")]

Init ==
    /\ images \in ImageLayouts
    /\ whitelist \in WhitelistFiles
    /\ reports = NoReports
    /\ files \in InitialFiles
    /\ clock = 1
    /\ tabs = [s \in Tabs |-> NewSession]
    /\ saved = [id \in StoreIds |-> <<>>]
    /\ thr = <<>>
    /\ entered = NotEntered
    /\ generator = NewGenerator

\* st.sidebar.text_input: a new doctor id is entered (src/app.py 159)
EnterDoctorId(s, id) ==
    /\ id # tabs[s].doctor_id
    /\ LET t == [tabs[s] EXCEPT !.doctor_id = id]
       IN  tabs' = [tabs EXCEPT ![s] = Settle(t, Shown(t, files))]
    /\ UNCHANGED <<images, reports, generator, entered, whitelist, files, clock, saved, thr>>

\* st.sidebar.selectbox: another modality is selected (src/app.py 245)
SelectModality(s, m) ==
    /\ tabs[s].page.view # "Unauthenticated"
    /\ m # tabs[s].modality
    /\ LET t == [tabs[s] EXCEPT !.modality = m]
       IN  tabs' = [tabs EXCEPT ![s] = Settle(t, Shown(t, files))]
    /\ UNCHANGED <<images, reports, generator, entered, whitelist, files, clock, saved, thr>>

\* the script is re-run with no widget changed
Rerun(s) ==
    /\ tabs' = [tabs EXCEPT ![s] = Settle(tabs[s], Shown(tabs[s], files))]
    /\ UNCHANGED <<images, reports, generator, entered, whitelist, files, clock, saved, thr>>

\* the tab left on the page of the run of the click, st.rerun() not called
AfterSave_no_rerun(t, fs) == Settle(t, Shown(t, files))

\* The tab after a run in which a button saved a label: save_label, then st.rerun().
AfterSave(t, fs) == Settle(t, Shown(t, fs))

\* A rating, Skip or Drop button of the labeling page is pressed (src/app.py 347-385):
\* the run of the click recomputes the current image and saves the label for it.
Submit(s, difficulty, ehr_text, reasoning) ==
    /\ tabs[s].page.view = "Reviewing"
    /\ clock <= MaxWrites
    /\ LET t == tabs[s]
           fresh == Shown(t, files)
       IN  IF fresh.view = "Reviewing"
           THEN LET current_image == fresh.current[1]
                    label_key == make_label_key(current_image.difficulty, current_image.filename)
                    fs == save_label(files, clock, t.doctor_id, t.modality, label_key,
                                     difficulty, current_image, ehr_text, reasoning)
                IN  /\ files' = fs
                    /\ clock' = clock + 1
                    /\ saved' = [saved EXCEPT ![get_doctor_file_path(t.doctor_id, t.modality)] =
                                   <<save_label_labels(files, clock, t.doctor_id, t.modality, label_key,
                                                       difficulty, current_image, ehr_text, reasoning)>>]
                    /\ tabs' = [tabs EXCEPT ![s] = AfterSave(t, fs)]
                    /\ entered' = NotEntered
           ELSE /\ tabs' = [tabs EXCEPT ![s] = Settle(t, fresh)]
                /\ UNCHANGED <<files, clock, saved, entered>>
    /\ UNCHANGED <<images, reports, generator, whitelist, thr>>

\* "View Previous Labels" is pressed (src/app.py 387-391)
ViewPreviousLabels(s) ==
    /\ tabs[s].page.view = "Reviewing"
    /\ LET t == tabs[s]
           fresh == Shown(t, files)
           shown == [t EXCEPT !.show_previous_labels = TRUE]
       IN  IF fresh.view = "Reviewing"
           THEN /\ tabs' = [tabs EXCEPT ![s] = Settle(shown, Shown(shown, files))]
                /\ entered' = [entered EXCEPT ![s] =
                                  <<[current |-> fresh.current, doctor_id |-> t.doctor_id,
                                     modality |-> t.modality]>>]
           ELSE /\ tabs' = [tabs EXCEPT ![s] = Settle(t, fresh)]
                /\ UNCHANGED entered
    /\ UNCHANGED <<images, reports, generator, whitelist, files, clock, saved, thr>>

\* "Back to Labeling" that re-runs the script with the flag left set
BackToLabeling_keeps_flag(s) ==
    /\ tabs[s].page.view = "ViewingHistory"
    /\ tabs' = [tabs EXCEPT ![s] = Settle(tabs[s], Shown(tabs[s], files))]
    /\ entered' = [entered EXCEPT ![s] = <<>>]
    /\ UNCHANGED <<images, reports, generator, whitelist, files, clock, saved, thr>>

\* "Back to Labeling" is pressed (src/app.py 278-281)
BackToLabeling(s) ==
    /\ tabs[s].page.view = "ViewingHistory"
    /\ LET t == tabs[s]
           fresh == Shown(t, files)
           back == [t EXCEPT !.show_previous_labels = FALSE]
       IN  IF fresh.view = "ViewingHistory"
           THEN tabs' = [tabs EXCEPT ![s] = Settle(back, Shown(back, files))]
           ELSE tabs' = [tabs EXCEPT ![s] = Settle(t, fresh)]
    /\ entered' = [entered EXCEPT ![s] = <<>>]
    /\ UNCHANGED <<images, reports, generator, whitelist, files, clock, saved, thr>>

\* image_data with the whole label key as the file name
HistoryImage_key_as_filename(label_key, modality) ==
    [filename |-> label_key, modality |-> modality, difficulty |-> SplitKey(label_key)[1]]

\* image_data as show_previous_labels rebuilds it from a label key (src/app.py 446-452)
HistoryImage(label_key, modality) ==
    [filename |-> SplitKey(label_key)[2], modality |-> modality,
     difficulty |-> SplitKey(label_key)[1]]

\* A button of the entry of label_key in the previous labels is pressed: the run of the
\* click lists the stored labels again and, the entry still listed, saves for it the
\* category of the button, or for "Save EHR Only" the category of the stored record.
PressEntry(s, label_key, ehr_only, category, ehr_text, edit_reasoning) ==
    /\ tabs[s].page.view \in {"ViewingHistory", "AllLabeled"}
    /\ \E i \in 1..Len(tabs[s].page.history) : tabs[s].page.history[i] = label_key
    /\ clock <= MaxWrites
    /\ LET t == tabs[s]
           fresh == Shown(t, files)
       IN  IF /\ fresh.view \in {"ViewingHistory", "AllLabeled"}
              /\ \E i \in 1..Len(fresh.history) : fresh.history[i] = label_key
           THEN LET stored == Lookup(load_doctor_labels(files, t.doctor_id, t.modality).labels, label_key)
                    difficulty == IF ehr_only THEN current_conf(stored) ELSE category
                    image_data == HistoryImage(label_key, t.modality)
                    fs == save_label(files, clock, t.doctor_id, t.modality, label_key,
                                     difficulty, image_data, ehr_text, edit_reasoning)
                IN  /\ files' = fs
                    /\ clock' = clock + 1
                    /\ saved' = [saved EXCEPT ![get_doctor_file_path(t.doctor_id, t.modality)] =
                                   <<save_label_labels(files, clock, t.doctor_id, t.modality, label_key,
                                                       difficulty, image_data, ehr_text, edit_reasoning)>>]
                    /\ tabs' = [tabs EXCEPT ![s] = AfterSave(t, fs)]
                    /\ entered' = NotEntered
           ELSE /\ tabs' = [tabs EXCEPT ![s] = Settle(t, fresh)]
                /\ UNCHANGED <<files, clock, saved, entered>>
    /\ UNCHANGED <<images, reports, generator, whitelist, thr>>

\* a rating or Drop button of an entry (src/app.py 485-515)
EditLabel(s, label_key, category, ehr_text, edit_reasoning) ==
    PressEntry(s, label_key, FALSE, category, ehr_text, edit_reasoning)

\* "Save EHR Only" of an entry (src/app.py 479-483)
SaveEhrOnly(s, label_key, ehr_text, edit_reasoning) ==
    PressEntry(s, label_key, TRUE, "medium", ehr_text, edit_reasoning)

\* delete_label(doctor_id, modality, label_key) (src/app.py 414-422)
DeleteLabel(doctor_id, modality, label_key) ==
    /\ LET l == load_doctor_labels(files, doctor_id, modality)
       IN  /\ files' = delete_label(files, doctor_id, modality, label_key)
           /\ saved' = IF l.ok /\ HasKey(l.labels, label_key)
                       THEN [saved EXCEPT ![get_doctor_file_path(doctor_id, modality)] =
                                <<DelItem(l.labels, label_key)>>]
                       ELSE saved
    /\ entered' = IF files' = files THEN entered ELSE NotEntered
    /\ UNCHANGED <<images, reports, generator, whitelist, clock, tabs, thr>>

\* the label keys a button or a call can name in the present state
StoredKeys == UNION {KeySet(json_load(files[id].content).labels) : id \in StoreIds}

Navigate(s) ==
    \/ \E id \in DoctorInputs : EnterDoctorId(s, id)
    \/ \E m \in ModalitySet : SelectModality(s, m)
    \/ Rerun(s)

Label(s) ==
    \E in \in SubmitInputs : Submit(s, in.difficulty, in.ehr_text, in.reasoning)

Review(s) ==
    \/ ViewPreviousLabels(s)
    \/ BackToLabeling(s)
    \/ \E k \in StoredKeys, in \in EditInputs :
           EditLabel(s, k, in.difficulty, in.ehr_text, in.reasoning)
    \/ \E k \in StoredKeys, in \in EhrOnlyInputs : SaveEhrOnly(s, k, in.ehr_text, in.reasoning)

\* The application used from one browser tab.  delete_label has no caller in
\* src/app.py, so no step of the application deletes a label.
Next == Navigate("t1") \/ Label("t1") \/ Review("t1")

Spec == Init /\ [][Next]_vars

\* One tab that only labels, no label file at start-up.
InitSubmit == Init /\ \A id \in StoreIds : ~files[id].exists

NextSubmit ==
    \/ \E id \in DoctorInputs : EnterDoctorId("t1", id)
    \/ \E m \in ModalitySet : SelectModality("t1", m)
    \/ Label("t1")

SpecSubmit == InitSubmit /\ [][NextSubmit]_vars

\* One tab that only labels, over each of the report directories.
InitReport ==
    /\ images \in ImageLayouts
    /\ reports \in ReportLayouts
    /\ whitelist \in {wl \in WhitelistFiles : load_whitelist(wl) # <<>>}
    /\ files = [id \in StoreIds |-> NoFile]
    /\ clock = 1
    /\ tabs = [s \in Tabs |-> NewSession]
    /\ saved = [id \in StoreIds |-> <<>>]
    /\ thr = <<>>
    /\ entered = NotEntered
    /\ generator = NewGenerator

SpecReport == InitReport /\ [][NextSubmit]_vars

\* More labels than show_previous_labels lists: one directory of HistoryWindow + 2
\* images, named with two letters so that their sorted order is the order of their
\* numbers, and a label file of DOC1 that holds the first HistoryWindow - 1 of them.
NameLetters == <<"a", "b", "d", "e", "g", "h", "i", "j", "m", "n", "p">>

NumberedImage(i) ==
    <<NameLetters[((i - 1) \div Len(NameLetters)) + 1],
      NameLetters[((i - 1) % Len(NameLetters)) + 1]>> \o ImageExts[1]

HistoryImages ==
    [m \in ModalitySet |->
        IF m = MODALITIES[1]
        THEN [NoImages EXCEPT ![EASY] = {NumberedImage(i) : i \in 1..(HistoryWindow + 2)}]
        ELSE NoImages]

HistoryLabels ==
    [i \in 1..(HistoryWindow - 1) |->
        [k |-> make_label_key(EASY, NumberedImage(i)),
         v |-> label_data(0, "low",
                          [filename |-> NumberedImage(i), modality |-> MODALITIES[1],
                           difficulty |-> EASY],
                          "Report not found", <<>>)]]

\* the entries of the previous labels whose buttons are pressed: the first three
\* records of the store and the first one that was not in the label file at start-up
HistoryEditKeys ==
    {make_label_key(EASY, NumberedImage(i)) : i \in {1, 2, 3, HistoryWindow}}

InitHistory ==
    /\ images = HistoryImages
    /\ reports = NoReports
    /\ whitelist \in {wl \in WhitelistFiles : load_whitelist(wl) # <<>>}
    /\ files = [id \in StoreIds |->
                  IF id = get_doctor_file_path("DOC1", MODALITIES[1])
                  THEN FileOf(HistoryLabels) ELSE NoFile]
    /\ clock = 1
    /\ tabs = [s \in Tabs |-> NewSession]
    /\ saved = [id \in StoreIds |-> <<>>]
    /\ thr = <<>>
    /\ entered = NotEntered
    /\ generator = NewGenerator

NextHistory ==
    \/ EnterDoctorId("t1", "DOC1")
    \/ \E in \in {x \in SubmitInputs : x.difficulty = "low"} :
           Submit("t1", in.difficulty, in.ehr_text, in.reasoning)
    \/ ViewPreviousLabels("t1")
    \/ BackToLabeling("t1")
    \/ \E k \in HistoryEditKeys, in \in EditInputs :
           EditLabel("t1", k, in.difficulty, in.ehr_text, in.reasoning)

SpecHistory == InitHistory /\ [][NextHistory]_vars

\* Two tabs of the same doctor and modality, and delete_label called on their label
\* file, each operation as a whole.
InitTabs == Init /\ whitelist.exists /\ \A id \in StoreIds : ~files[id].exists

NextTabs ==
    \/ \E s \in Tabs : EnterDoctorId(s, "DOC1") \/ Rerun(s) \/ Label(s) \/ Review(s)
    \/ \E k \in DeleteKeys : DeleteLabel("DOC1", MODALITIES[1], k)

SpecTabs == InitTabs /\ [][NextTabs]_vars

\* Two tabs of the same doctor and modality and nothing else: the sessions of one
\* reviewer, each with the page of its last run, every operation as a whole.
NextSessions ==
    \E s \in Tabs : EnterDoctorId(s, "DOC1") \/ Rerun(s) \/ Label(s) \/ Review(s)

SpecSessions == InitTabs /\ [][NextSessions]_vars

\* An image file is removed from data/<modality>/images/<difficulty>: the next run of
\* main() lists the directory without it (src/app.py 80-87), the label files untouched.
RemoveImage(modality, difficulty, filename) ==
    /\ filename \in images[modality][difficulty]
    /\ images' = [images EXCEPT ![modality][difficulty] = @ \ {filename}]
    /\ entered' = NotEntered
    /\ UNCHANGED <<reports, generator, whitelist, files, clock, tabs, saved, thr>>

\* One tab that labels while image files are removed from the directories.
NextCatalog ==
    \/ EnterDoctorId("t1", "DOC1")
    \/ \E m \in ModalitySet : SelectModality("t1", m)
    \/ Rerun("t1")
    \/ Label("t1")
    \/ \E m \in ModalitySet, d \in DifficultySet, f \in {A_PNG, B_JPG} : RemoveImage(m, d, f)

SpecCatalog == InitTabs /\ [][NextCatalog]_vars

\* A label file is left cut short: a save_doctor_labels that stopped between its
\* open(file_path, 'w') and the end of json.dump (src/app.py 133-134) leaves the file
\* empty or without its end.
Truncate(id) ==
    /\ files[id].exists
    /\ json_load(files[id].content).ok
    /\ \E n \in {0, Len(files[id].content) - 1} :
           files' = [files EXCEPT ![id].content = SubSeq(@, 1, n)]
    /\ entered' = NotEntered
    /\ UNCHANGED <<images, reports, generator, whitelist, clock, tabs, saved, thr>>

\* One tab, delete_label calls, and label files that get cut short.
NextCorrupt ==
    \/ Next
    \/ \E k \in DeleteKeys : DeleteLabel("DOC1", MODALITIES[1], k)
    \/ Truncate(get_doctor_file_path("DOC1", MODALITIES[1]))

SpecCorrupt == Init /\ [][NextCorrupt]_vars

\* One tab used by both doctors of the whitelist in both modalities, and delete_label
\* called for any of the label files; images in both modalities and no label file
\* at start-up.
InitStores ==
    /\ Init
    /\ load_whitelist(whitelist) # <<>>
    /\ \A m \in ModalitySet : load_image_data(images, m) # <<>>
    /\ \A id \in StoreIds : ~files[id].exists

NextStores ==
    \/ \E id \in DoctorIds : EnterDoctorId("t1", id)
    \/ \E m \in ModalitySet : SelectModality("t1", m)
    \/ \E in \in {x \in SubmitInputs : x.difficulty = "low"} :
           Submit("t1", in.difficulty, in.ehr_text, in.reasoning)
    \/ \E k \in StoredKeys, in \in EditInputs :
           EditLabel("t1", k, in.difficulty, in.ehr_text, in.reasoning)
    \/ \E id \in StoreIds, k \in DeleteKeys : DeleteLabel(id[1], id[2], k)

SpecStores == InitStores /\ [][NextStores]_vars

----------------------------------------------------------------------------
(* save_label and delete_label step by step: two script threads on one label file *)

Threads == {"w1", "w2"}

\* the label file the threads work on
ConcDoctor == "DOC1"
ConcModality == MODALITIES[1]
ConcFile == get_doctor_file_path(ConcDoctor, ConcModality)

\* the calls a thread makes: save_label for an item of the catalog, delete_label for a key
ConcCalls ==
    {[kind |-> "save", label_key |-> make_label_key(img.difficulty, img.filename),
      difficulty |-> in.difficulty, image_data |-> img, ehr_text |-> in.ehr_text,
      reasoning |-> in.reasoning] :
        img \in {load_image_data(images, ConcModality)[i] :
                    i \in 1..Len(load_image_data(images, ConcModality))},
        in \in {x \in SubmitInputs : x.difficulty = "low"}}
    \cup {[kind |-> "delete", label_key |-> k] : k \in DeleteKeys}

Idle == [pc |-> "idle", call |-> [kind |-> "none"], labels |-> <<>>, out |-> <<>>, pos |-> 0]

InitConc ==
    /\ images \in ImageLayouts
    /\ whitelist \in {wl \in WhitelistFiles : wl.exists}
    /\ reports = NoReports
    /\ files \in InitialFiles
    /\ clock = 1
    /\ tabs = [s \in Tabs |-> NewSession]
    /\ saved = [id \in StoreIds |-> <<>>]
    /\ thr = [w \in Threads |-> Idle]
    /\ entered = NotEntered
    /\ generator = NewGenerator

\* f.write at offset pos of a file: the bytes between the end of a shorter file and
\* pos are zero bytes
WriteAt(content, pos, chunk) ==
    LET padded == IF Len(content) < pos
                  THEN content \o [i \in 1..(pos - Len(content)) |-> NulFill]
                  ELSE content
        length == IF Len(padded) > pos + Len(chunk) THEN Len(padded) ELSE pos + Len(chunk)
    IN  [i \in 1..length |->
            IF i > pos /\ i <= pos + Len(chunk) THEN chunk[i - pos] ELSE padded[i]]

\* a script thread enters save_label or delete_label
Call(w, call) ==
    /\ thr[w].pc = "idle"
    /\ thr' = [thr EXCEPT ![w] = [Idle EXCEPT !.pc = "load", !.call = call]]
    /\ UNCHANGED <<images, reports, generator, entered, whitelist, files, clock, tabs, saved>>

\* load_doctor_labels and the change of the loaded dict (src/app.py 397-409, 416-418):
\* json.load raises on a file it cannot parse, delete_label returns False for a key absent
LoadStep(w) ==
    /\ thr[w].pc = "load"
    /\ LET l == load_doctor_labels(files, ConcDoctor, ConcModality)
           call == thr[w].call
       IN  IF ~l.ok
           THEN /\ thr' = [thr EXCEPT ![w].pc = "raised"]
                /\ UNCHANGED clock
           ELSE IF call.kind = "save"
           THEN /\ clock <= MaxWrites
                /\ thr' = [thr EXCEPT ![w].pc = "open",
                                      ![w].labels =
                                          save_label_labels(files, clock, ConcDoctor, ConcModality,
                                                            call.label_key, call.difficulty,
                                                            call.image_data, call.ehr_text,
                                                            call.reasoning)]
                /\ clock' = clock + 1
           ELSE /\ thr' = IF HasKey(l.labels, call.label_key)
                          THEN [thr EXCEPT ![w].pc = "open",
                                           ![w].labels = DelItem(l.labels, call.label_key)]
                          ELSE [thr EXCEPT ![w].pc = "returned"]
                /\ UNCHANGED clock
    /\ UNCHANGED <<images, reports, generator, entered, whitelist, files, tabs, saved>>

\* open(file_path, 'w') of save_doctor_labels: the file is created or truncated
OpenStep(w) ==
    /\ thr[w].pc = "open"
    /\ files' = [files EXCEPT ![ConcFile] = [exists |-> TRUE, content |-> <<>>]]
    /\ thr' = [thr EXCEPT ![w].pc = "write", ![w].out = json_dump(thr[w].labels), ![w].pos = 0]
    /\ UNCHANGED <<images, reports, generator, entered, whitelist, clock, tabs, saved>>

\* json.dump through the buffered file: the next n tokens reach the file at the
\* thread's own offset; the file is closed after the last one
WriteStep(w, n) ==
    /\ thr[w].pc = "write"
    /\ n \in 1..(Len(thr[w].out) - thr[w].pos)
    /\ files' = [files EXCEPT ![ConcFile].content =
                     WriteAt(@, thr[w].pos, SubSeq(thr[w].out, thr[w].pos + 1, thr[w].pos + n))]
    /\ thr' = [thr EXCEPT ![w].pos = @ + n,
                          ![w].pc = IF thr[w].pos + n = Len(thr[w].out) THEN "returned" ELSE "write"]
    /\ UNCHANGED <<images, reports, generator, entered, whitelist, clock, tabs, saved>>

NextConc ==
    \E w \in Threads :
        \/ \E call \in ConcCalls : Call(w, call)
        \/ LoadStep(w)
        \/ OpenStep(w)
        \/ \E n \in 1..Len(thr[w].out) : WriteStep(w, n)

SpecConc == InitConc /\ [][NextConc]_vars

----------------------------------------------------------------------------
(* The whitelist generator of src/generate_doctor_whitelist.py *)

\* the longest whitelist the generator is let to build
MaxDoctors == 3

\* DoctorWhitelistGenerator.add_doctor_id: self.whitelist after the call
add_doctor_id(wl, doctor_id) ==
    IF Strip(doctor_id) # <<>> /\ ~(\E i \in 1..Len(wl) : wl[i] = doctor_id)
    THEN Append(wl, Strip(doctor_id))
    ELSE wl

\* add_doctor_id called for each id of a list in turn
RECURSIVE add_each(_, _)
add_each(wl, ids) ==
    IF ids = <<>> THEN wl ELSE add_each(add_doctor_id(wl, Head(ids)), Tail(ids))

\* load_from_file: add_doctor_id(line.strip()) for each line
load_from_file(wl, lines) ==
    add_each(wl, [i \in 1..Len(lines) |-> Strip(lines[i])])

\* load_from_csv with column = 0: add_doctor_id(row[0]) for each row that has a field
load_from_csv(wl, rows) ==
    LET with_field == SelectSeq(rows, LAMBDA row : Len(row) > 0)
    IN  add_each(wl, [i \in 1..Len(with_field) |-> with_field[i][1]])

\* sorted() of a list
RECURSIVE SortedInsert(_, _)
SortedInsert(x, xs) ==
    IF xs = <<>> THEN <<x>>
    ELSE IF LexLess(Head(xs), x) THEN <<Head(xs)>> \o SortedInsert(x, Tail(xs))
    ELSE <<x>> \o xs

RECURSIVE SortedList(_)
SortedList(xs) == IF xs = <<>> THEN <<>> ELSE SortedInsert(Head(xs), SortedList(Tail(xs)))

\* the texts given to the generator: ids, ids with white space around them, blanks
IdTexts == {<<"d">>, <<"e">>, <<"g">>, <<" ", "d">>, <<"d", " ">>, <<" ", "e">>, <<" ">>, <<>>}

\* the ids generate_random_id draws from, the pattern without white space
RandomIds == {<<"d">>, <<"e">>, <<"g">>}

\* the lines of a text file and the rows of a CSV file: up to two, a row of one field
\* or of none
TextFiles == {<<>>} \cup {<<a>> : a \in IdTexts} \cup {<<a, b>> : a, b \in IdTexts}
CsvFiles ==
    {<<>>} \cup {<<row>> : row \in {<<a>> : a \in IdTexts} \cup {<<>>}}
           \cup {<<<<a>>, <<b>>>> : a, b \in IdTexts}

\* no image, no report, no whitelist file, no label file: the generator run on its own
InitGenerator ==
    /\ images = [m \in ModalitySet |-> NoImages]
    /\ reports = NoReports
    /\ whitelist = [exists |-> FALSE, list |-> <<>>]
    /\ files = [id \in StoreIds |-> NoFile]
    /\ clock = 1
    /\ tabs = [s \in Tabs |-> NewSession]
    /\ saved = [id \in StoreIds |-> <<>>]
    /\ thr = <<>>
    /\ entered = NotEntered
    /\ generator = NewGenerator

\* interactive_mode: one id is typed in (src/generate_doctor_whitelist.py 116-125)
InteractiveEntry(text) ==
    /\ Strip(text) # <<>>
    /\ LET wl == add_doctor_id(generator.whitelist, Strip(text))
       IN  /\ Len(wl) <= MaxDoctors
           /\ generator' = [generator EXCEPT !.whitelist = wl]
    /\ UNCHANGED <<images, reports, whitelist, files, clock, tabs, saved, thr, entered>>

\* --random: generate_random_ids returns distinct ids that are not in the whitelist,
\* and main adds each (src/generate_doctor_whitelist.py 55-67, 214-219)
GenerateRandom(random_ids) ==
    /\ \A i, j \in 1..Len(random_ids) : i # j => random_ids[i] # random_ids[j]
    /\ \A i \in 1..Len(random_ids), j \in 1..Len(generator.whitelist) :
           random_ids[i] # generator.whitelist[j]
    /\ LET wl == add_each(generator.whitelist, random_ids)
       IN  /\ Len(wl) <= MaxDoctors
           /\ generator' = [generator EXCEPT !.whitelist = wl]
    /\ UNCHANGED <<images, reports, whitelist, files, clock, tabs, saved, thr, entered>>

\* --from-file (src/generate_doctor_whitelist.py 69-80)
LoadFromFile(lines) ==
    /\ LET wl == load_from_file(generator.whitelist, lines)
       IN  /\ Len(wl) <= MaxDoctors
           /\ generator' = [generator EXCEPT !.whitelist = wl]
    /\ UNCHANGED <<images, reports, whitelist, files, clock, tabs, saved, thr, entered>>

\* --from-csv (src/generate_doctor_whitelist.py 88-101)
LoadFromCsv(rows) ==
    /\ LET wl == load_from_csv(generator.whitelist, rows)
       IN  /\ Len(wl) <= MaxDoctors
           /\ generator' = [generator EXCEPT !.whitelist = wl]
    /\ UNCHANGED <<images, reports, whitelist, files, clock, tabs, saved, thr, entered>>

\* save_whitelist: the sorted whitelist written to the whitelist file, main calling it
\* for a whitelist that is not empty (src/generate_doctor_whitelist.py 129-146, 232-233)
SaveWhitelist ==
    /\ generator.whitelist # <<>>
    /\ whitelist' = [exists |-> TRUE, list |-> SortedList(generator.whitelist)]
    /\ UNCHANGED <<images, reports, files, clock, tabs, saved, thr, generator, entered>>

NextGenerator ==
    \/ \E text \in IdTexts : InteractiveEntry(text)
    \/ \E random_ids \in {<<>>} \cup {<<a>> : a \in RandomIds}
                         \cup {<<a, b>> : a, b \in RandomIds} : GenerateRandom(random_ids)
    \/ \E lines \in TextFiles : LoadFromFile(lines)
    \/ \E rows \in CsvFiles : LoadFromCsv(rows)
    \/ SaveWhitelist

SpecGenerator == InitGenerator /\ [][NextGenerator]_vars

----------------------------------------------------------------------------
(* What the claims speak of *)

\* the items of a modality: the image files of its three directories
ItemSet(modality) ==
    {[filename |-> f, modality |-> modality, difficulty |-> d] :
        <<d, f>> \in {x \in DifficultySet \X UNION {images[modality][d] : d \in DifficultySet} :
                         /\ x[2] \in images[modality][x[1]]
                         /\ \E i \in 1..Len(ImageExts) : EndsWith(x[2], ImageExts[i])}}

ItemKey(item) == item.difficulty \o <<"/">> \o item.filename

\* catalog order: the bucket easy before medium before hard, then the file name
BucketRank(d) == IF d = EASY THEN 1 ELSE IF d = MEDIUM THEN 2 ELSE 3

Before(a, b) ==
    \/ BucketRank(a.difficulty) < BucketRank(b.difficulty)
    \/ a.difficulty = b.difficulty /\ LexLess(a.filename, b.filename)

\* the items of a modality in catalog order
RECURSIVE InOrder(_)
InOrder(items) ==
    IF items = {} THEN <<>>
    ELSE LET first == CHOOSE a \in items : \A b \in items \ {a} : Before(a, b)
         IN  <<first>> \o InOrder(items \ {first})

\* the store of a doctor and modality: the mapping a load of its file returns
Store(doctor_id, modality) == load_doctor_labels(files, doctor_id, modality).labels

Unlabeled(doctor_id, modality) ==
    {item \in ItemSet(modality) : ItemKey(item) \notin KeySet(Store(doctor_id, modality))}

Authenticated(s) == tabs[s].page.view # "Unauthenticated"

\* the category a stored record holds, under either name of the field
StoredCategory(rec) ==
    IF "doctor_confidence" \in DOMAIN rec THEN rec.doctor_confidence
    ELSE IF "doctor_difficulty" \in DOMAIN rec THEN rec.doctor_difficulty
    ELSE None

\* the number of records in the stores ids
RECURSIVE SumOfLengths(_)
SumOfLengths(ids) ==
    IF ids = {} THEN 0
    ELSE LET id == CHOOSE x \in ids : TRUE
         IN  Len(Store(id[1], id[2])) + SumOfLengths(ids \ {id})

----------------------------------------------------------------------------
(* C1 *)

\* C1: on every labeling page the current item is the first item, in catalog order
\* (bucket easy, medium, hard, then file name), whose key is not in the doctor's store.
C1_CurrentIsFirstUnlabeled ==
    \A s \in Tabs :
        tabs[s].page.view = "Reviewing" =>
            LET current == tabs[s].page.current[1]
                unlabeled == Unlabeled(tabs[s].doctor_id, tabs[s].modality)
            IN  /\ current \in unlabeled
                /\ \A other \in unlabeled \ {current} : Before(current, other)

\* a labeling page that shows an item of the hard bucket, earlier items being labeled
C1_Witness ==
    /\ tabs["t1"].page.view = "Reviewing"
    /\ tabs["t1"].page.current[1].difficulty = HARD
    /\ \E item \in ItemSet(tabs["t1"].modality) :
           /\ item.difficulty # HARD
           /\ ItemKey(item) \in KeySet(Store(tabs["t1"].doctor_id, tabs["t1"].modality))

----------------------------------------------------------------------------
(* C2 *)

\* C2: from empty stores, a tab that only submits labels the items of a modality in
\* catalog order, each once: every submit adds one record, after k submits for a
\* modality its store holds the first k items of the catalog in that order, the page
\* shows item k+1, and it shows "all labeled" exactly after the submit for the last item.
C2_SubmitsFollowCatalogOrder ==
    /\ \A id \in StoreIds :
           LET catalog == InOrder(ItemSet(id[2]))
               keys == Keys(Store(id[1], id[2]))
           IN  /\ Len(keys) <= Len(catalog)
               /\ \A k \in 1..Len(keys) :
                      /\ keys[k] = ItemKey(catalog[k])
                      /\ Store(id[1], id[2])[k].v.filename = catalog[k].filename
    /\ SumOfLengths(StoreIds) = clock - 1
    /\ Authenticated("t1") =>
           LET catalog == InOrder(ItemSet(tabs["t1"].modality))
               n == Len(Store(tabs["t1"].doctor_id, tabs["t1"].modality))
           IN  /\ tabs["t1"].page.view = "AllLabeled" <=> n = Len(catalog)
               /\ tabs["t1"].page.view = "Reviewing" <=> n < Len(catalog)
               /\ n < Len(catalog) => tabs["t1"].page.current[1] = catalog[n + 1]

\* three items labeled one after the other, the page then showing "all labeled"
C2_Witness ==
    /\ tabs["t1"].page.view = "AllLabeled"
    /\ Len(Store(tabs["t1"].doctor_id, tabs["t1"].modality)) = 3

----------------------------------------------------------------------------
(* C5 *)

\* C5: a load of a label file returns exactly the mapping last saved to it: the
\* same keys in the same order with the same records.
C5_LoadReturnsSaved ==
    \A id \in StoreIds :
        saved[id] # <<>> =>
            /\ files[id].exists
            /\ load_doctor_labels(files, id[1], id[2]).ok
            /\ load_doctor_labels(files, id[1], id[2]).labels = saved[id][1]

\* a saved mapping of two records, one of them with a reasoning
C5_Witness ==
    \E id \in StoreIds :
        /\ saved[id] # <<>>
        /\ Len(saved[id][1]) >= 2
        /\ \E i \in 1..Len(saved[id][1]) : saved[id][1][i].v.reasoning = <<"r">>

----------------------------------------------------------------------------
(* C6 *)

\* C6: no operation other than delete_label lowers the number of records in a
\* store: a submit, skip, drop, edit, "Save EHR Only", view toggle or rerun of any tab
\* leaves every store with at least as many records as before.
C6_CountNeverDecreases ==
    [][\/ \E k \in DeleteKeys : DeleteLabel("DOC1", MODALITIES[1], k)
       \/ \A id \in StoreIds :
              Len(load_doctor_labels(files', id[1], id[2]).labels)
                  >= Len(load_doctor_labels(files, id[1], id[2]).labels)]_vars

\* two records in a store, one of them edited to "high"
C6_Witness ==
    \E id \in StoreIds :
        /\ Len(Store(id[1], id[2])) = 2
        /\ \E i \in 1..2 : StoredCategory(Store(id[1], id[2])[i].v) = "high"

----------------------------------------------------------------------------
(* C7 *)

\* C7: a rerun of the script on a labeling page, no button pressed, shows the same
\* current item again and leaves the label files as they are.
C7_RerunKeepsCurrentItem ==
    [][(Rerun("t1") /\ tabs["t1"].page.view = "Reviewing") =>
           /\ files' = files
           /\ tabs'["t1"].page.view = "Reviewing"
           /\ tabs'["t1"].page.current = tabs["t1"].page.current]_vars

\* a labeling page over a store that holds a label already
C7_Witness ==
    /\ tabs["t1"].page.view = "Reviewing"
    /\ Len(Store(tabs["t1"].doctor_id, tabs["t1"].modality)) >= 1
    /\ clock > 1

----------------------------------------------------------------------------
(* C8 *)

\* what an edit of the entry key with the input in leaves unchanged, and what it sets
EditFrame(key, in) ==
    LET t == tabs["t1"]
        id == get_doctor_file_path(t.doctor_id, t.modality)
        old == load_doctor_labels(files, t.doctor_id, t.modality).labels
        new == load_doctor_labels(files', t.doctor_id, t.modality).labels
        was == Lookup(old, key)
        rec == Lookup(new, key)
    IN  /\ \A other \in StoreIds \ {id} : files'[other] = files[other]
        /\ Keys(new) = Keys(old)
        /\ \A j \in 1..Len(old) : old[j].k # key => new[j] = old[j]
        /\ rec.doctor_confidence = in.difficulty
        /\ rec.ehr_text = in.ehr_text
        /\ rec.reasoning = in.reasoning
        /\ rec.timestamp = clock /\ rec.timestamp > was.timestamp
        /\ rec.modality = was.modality
        /\ rec.difficulty = was.difficulty
        /\ rec.filename = was.filename
        /\ RenderPage(images, reports, whitelist, files', t.doctor_id, t.modality, FALSE)
               = RenderPage(images, reports, whitelist, files, t.doctor_id, t.modality, FALSE)

\* C8: an edit of a stored key through a rating or Drop button of the previous
\* labels sets that record's category, report text, reasoning and timestamp and
\* nothing else: the other records, the keys and their order, the other label files
\* and the current item of the labeling page are as before.
C8_EditChangesOnlyItsRecord ==
    [][\A k \in StoredKeys, in \in EditInputs :
           (EditLabel("t1", k, in.difficulty, in.ehr_text, in.reasoning) /\ files' # files)
               => EditFrame(k, in)]_vars

\* the first of two records edited to "high", seen in the previous labels
C8_Witness ==
    /\ tabs["t1"].page.view = "ViewingHistory"
    /\ LET store == Store(tabs["t1"].doctor_id, tabs["t1"].modality)
       IN  /\ Len(store) >= 2
           /\ StoredCategory(store[1].v) = "high"
           /\ store[1].v.timestamp > store[2].v.timestamp

----------------------------------------------------------------------------
(* C9 *)

\* C9: "Save EHR Only" of an entry leaves the category of its record as the store
\* held it just before, whichever field holds it, also when no field holds one.
C9_SaveEhrOnlyKeepsCategory ==
    [][\A k \in StoredKeys, in \in EhrOnlyInputs :
           (SaveEhrOnly("t1", k, in.ehr_text, in.reasoning) /\ files' # files) =>
               StoredCategory(Lookup(load_doctor_labels(files', tabs["t1"].doctor_id,
                                                        tabs["t1"].modality).labels, k))
                   = StoredCategory(Lookup(Store(tabs["t1"].doctor_id, tabs["t1"].modality), k))]_vars

----------------------------------------------------------------------------
(* C10 *)

\* C10: an authenticated tab shows "all labeled" exactly when every item of the
\* catalog has its key in the store, and the labeling page or the previous labels
\* opened from it exactly when some item has not; an unauthenticated tab shows neither.
C10_ViewMatchesStore ==
    \A s \in Tabs :
        LET view == tabs[s].page.view
            unlabeled == Unlabeled(tabs[s].doctor_id, tabs[s].modality)
        IN  IF Authenticated(s)
            THEN /\ view = "AllLabeled" <=> unlabeled = {}
                 /\ view \in {"Reviewing", "ViewingHistory"} <=> unlabeled # {}
            ELSE view \notin {"AllLabeled", "Reviewing", "ViewingHistory"}

----------------------------------------------------------------------------
(* C3 *)

\* C3: two save_label calls for different keys of one label file that both
\* returned, however their steps interleaved, have both their keys in the file.
C3_ConcurrentUpsertsBothStored ==
    \A w1 \in DOMAIN thr, w2 \in DOMAIN thr :
        (/\ w1 # w2
         /\ thr[w1].pc = "returned" /\ thr[w1].call.kind = "save"
         /\ thr[w2].pc = "returned" /\ thr[w2].call.kind = "save"
         /\ thr[w1].call.label_key # thr[w2].call.label_key)
        => /\ load_doctor_labels(files, ConcDoctor, ConcModality).ok
           /\ {thr[w1].call.label_key, thr[w2].call.label_key}
                  \subseteq KeySet(Store(ConcDoctor, ConcModality))

----------------------------------------------------------------------------
(* C4 *)

\* C4: no load of a label file, at whatever point of a save of that file it runs,
\* finds an empty, truncated or unparsable file: json.load never raises.
C4_LoadNeverSeesPartialWrite ==
    \A w \in DOMAIN thr : thr[w].pc # "raised"

----------------------------------------------------------------------------
(* C11 *)

\* the mark a Skip or Drop button stores as the category
SkipMarks == {"skipped", "dropped"}

\* C11: a press of Skip or Drop on a labeling page stores a record with the
\* category "skipped" or "dropped" under the key of the current item, and from then
\* on the item counts as labeled: the store is one record longer, the item is no
\* longer unlabeled and the page moves on to another item or to "all labeled".
C11_SkipAndDropCountAsLabeled ==
    [][\A in \in {x \in SubmitInputs : x.difficulty \in SkipMarks} :
           (Submit("t1", in.difficulty, in.ehr_text, in.reasoning) /\ files' # files) =>
               LET t == tabs["t1"]
                   item == t.page.current[1]
                   new == load_doctor_labels(files', t.doctor_id, t.modality).labels
               IN  /\ HasKey(new, ItemKey(item))
                   /\ Lookup(new, ItemKey(item)).doctor_confidence = in.difficulty
                   /\ Len(new) = Len(Store(t.doctor_id, t.modality)) + 1
                   /\ tabs'["t1"].page.view \in {"Reviewing", "AllLabeled"}
                   /\ tabs'["t1"].page.view = "Reviewing" =>
                          /\ tabs'["t1"].page.current[1] # item
                          /\ Before(item, tabs'["t1"].page.current[1])
                   /\ tabs'["t1"].page.view = "AllLabeled" =>
                          \A other \in ItemSet(t.modality) : HasKey(new, ItemKey(other))]_vars

\* one item skipped and one dropped, the labeling page showing a third
C11_Witness ==
    /\ tabs["t1"].page.view = "Reviewing"
    /\ LET store == Store(tabs["t1"].doctor_id, tabs["t1"].modality)
       IN  /\ \E i \in 1..Len(store) : StoredCategory(store[i].v) = "skipped"
           /\ \E i \in 1..Len(store) : StoredCategory(store[i].v) = "dropped"
           /\ \A i \in 1..Len(store) : store[i].k # ItemKey(tabs["t1"].page.current[1])

----------------------------------------------------------------------------
(* C12 *)

\* the id is one of the whitelist file, letter for letter
ListedVerbatim(doctor_id) ==
    /\ whitelist.exists
    /\ \E i \in 1..Len(whitelist.list) : whitelist.list[i] = doctor_id

\* C12: authentication succeeds exactly for a non-empty id that is in the whitelist
\* letter for letter: the empty id, an id of other case, and every id when the
\* whitelist is missing or empty are refused, and a tab is past the login page
\* exactly when the id typed into it is such an id.
C12_AuthenticatesExactMembers ==
    /\ \A id \in DoctorInputs :
           IF id # "" /\ ListedVerbatim(id)
           THEN authenticate_doctor(whitelist, id) = id
           ELSE authenticate_doctor(whitelist, id) = None
    /\ \A s \in Tabs :
           Authenticated(s) <=> (tabs[s].doctor_id # "" /\ ListedVerbatim(tabs[s].doctor_id))

\* "doc1" refused over a whitelist that has "DOC1", which had logged in and labeled before
C12_Witness ==
    /\ tabs["t1"].doctor_id = "doc1"
    /\ tabs["t1"].page.view = "Unauthenticated"
    /\ ListedVerbatim("DOC1")
    /\ Len(Store("DOC1", MODALITIES[1])) >= 1
    /\ clock > 1

----------------------------------------------------------------------------
(* C13 *)

\* C13: a run of the script in which authentication fails (no id, an id that is not
\* in the whitelist, no whitelist) writes no label file and leaves the tab's
\* show_previous_labels flag as it was.
C13_FailedLoginChangesNothing ==
    [][\A s \in Tabs :
           (tabs'[s] # tabs[s] /\ authenticate_doctor(whitelist, tabs'[s].doctor_id) = None) =>
               /\ files' = files
               /\ saved' = saved
               /\ tabs'[s].show_previous_labels = tabs[s].show_previous_labels
               /\ tabs'[s].page = NoPage("Unauthenticated")]_vars

\* an id refused in a session that has a label stored and the previous labels open
C13_Witness ==
    /\ tabs["t1"].doctor_id = "doc1"
    /\ tabs["t1"].page.view = "Unauthenticated"
    /\ tabs["t1"].show_previous_labels
    /\ \E id \in StoreIds : Len(Store(id[1], id[2])) >= 1

----------------------------------------------------------------------------
(* C14 *)

\* C14: what authenticate_doctor returns for an id that was entered and refused
\* differs from what it returns when no id was entered.
C14_RejectedDiffersFromNotEntered ==
    \A s \in Tabs :
        (tabs[s].doctor_id # "" /\ ~Authenticated(s)) =>
            authenticate_doctor(whitelist, tabs[s].doctor_id) # authenticate_doctor(whitelist, "")

----------------------------------------------------------------------------
(* C15 *)

\* C15: delete_label for a key that is not in the store returns False and leaves
\* the label file as it is, not written and not created; for a key in the store it
\* returns True and removes that entry alone, the other entries, their order and the
\* other label files staying as they were.
C15_DeleteRemovesOnlyItsKey ==
    [][\A k \in DeleteKeys :
           DeleteLabel(ConcDoctor, ConcModality, k) =>
               LET old == Store(ConcDoctor, ConcModality)
                   new == load_doctor_labels(files', ConcDoctor, ConcModality).labels
                   result == delete_label_result(files, ConcDoctor, ConcModality, k)
               IN  IF k \in KeySet(old)
                   THEN /\ result = TRUE
                        /\ k \notin KeySet(new)
                        /\ Len(new) = Len(old) - 1
                        /\ \A i \in 1..Len(old) :
                               old[i].k # k => \E j \in 1..Len(new) : new[j] = old[i]
                        /\ \A i, j \in 1..Len(new) :
                               i < j => \E g, h \in 1..Len(old) :
                                            g < h /\ old[g] = new[i] /\ old[h] = new[j]
                        /\ \A id \in StoreIds \ {ConcFile} : files'[id] = files[id]
                   ELSE /\ result = FALSE
                        /\ files' = files]_vars

\* the second of two labels deleted, the first left as it was stored
C15_Witness ==
    /\ clock = 3
    /\ Len(Store(ConcDoctor, ConcModality)) = 1
    /\ Store(ConcDoctor, ConcModality)[1].v.timestamp = 1
    /\ saved[ConcFile] = <<Store(ConcDoctor, ConcModality)>>

----------------------------------------------------------------------------
(* C16 *)

\* a label file that exists and is not a complete JSON object
Malformed(f) ==
    /\ f.exists
    /\ \/ Len(f.content) < 2
       \/ f.content[1] # OpenBrace
       \/ f.content[Len(f.content)] # CloseBrace

\* C16: a label file that cannot be parsed is never taken for an empty store: its
\* load fails, which is not the empty mapping a missing file gives; a run of the
\* script over it ends in the error and shows no item to label; and no operation,
\* submit, edit or delete, writes the file again.
C16_MalformedStoreIsNotEmpty ==
    /\ [](\A id \in StoreIds :
              Malformed(files[id]) =>
                  /\ ~load_doctor_labels(files, id[1], id[2]).ok
                  /\ load_doctor_labels(files, id[1], id[2])
                         # load_doctor_labels([files EXCEPT ![id] = NoFile], id[1], id[2]))
    /\ [][/\ \A id \in StoreIds : Malformed(files[id]) => files'[id] = files[id]
          /\ \A s \in Tabs :
                 (/\ tabs'[s] # tabs[s]
                  /\ tabs'[s].page.view # "Unauthenticated"
                  /\ Malformed(files'[get_doctor_file_path(tabs'[s].doctor_id, tabs'[s].modality)]))
                 => tabs'[s].page = NoPage("Error")]_vars

\* the error page over a label file cut short after its first record
C16_Witness ==
    /\ tabs["t1"].page.view = "Error"
    /\ LET f == files[get_doctor_file_path(tabs["t1"].doctor_id, tabs["t1"].modality)]
       IN  /\ Malformed(f)
           /\ Len(f.content) >= 2
           /\ f.content[2].t = "member"
    /\ clock > 1

----------------------------------------------------------------------------
(* C17 *)

\* the label files other than the one of doctor_id and modality are as before
OtherStoresUnchanged(doctor_id, modality) ==
    \A id \in StoreIds : id # <<doctor_id, modality>> => files'[id] = files[id]

\* C17: a submit or an edit of a tab, done for the doctor and modality of the tab,
\* and a delete_label for a doctor and modality, leave the label file of every other
\* doctor or other modality as it was.
C17_StoresAreIsolated ==
    [][/\ (\/ Label("t1")
           \/ \E k \in StoredKeys, in \in EditInputs :
                  EditLabel("t1", k, in.difficulty, in.ehr_text, in.reasoning))
              => OtherStoresUnchanged(tabs["t1"].doctor_id, tabs["t1"].modality)
       /\ \A id \in StoreIds, k \in DeleteKeys :
              DeleteLabel(id[1], id[2], k) => OtherStoresUnchanged(id[1], id[2])]_vars

\* labels of one doctor in two modalities and of the other doctor under the same key
C17_Witness ==
    /\ Len(Store("DOC1", "CXR")) >= 1
    /\ Len(Store("DOC1", "MRI")) >= 1
    /\ Len(Store("DOC2", "CXR")) >= 1
    /\ \E i \in 1..Len(Store("DOC1", "CXR")) :
           Store("DOC1", "CXR")[i].k = Store("DOC2", "CXR")[1].k

----------------------------------------------------------------------------
(* C18 *)

\* C18: a tab logged in for a modality that has no images shows "all labeled", and
\* its progress is 0, computed without a division by zero, whatever the store holds.
C18_EmptyCatalogIsAllLabeled ==
    \A s \in Tabs :
        (/\ Authenticated(s)
         /\ tabs[s].page.view # "Error"
         /\ ItemSet(tabs[s].modality) = {})
        => /\ tabs[s].page.view = "AllLabeled"
           /\ progress(Store(tabs[s].doctor_id, tabs[s].modality),
                       load_image_data(images, tabs[s].modality)).den # 0
           /\ progress(Store(tabs[s].doctor_id, tabs[s].modality),
                       load_image_data(images, tabs[s].modality)).num = 0

----------------------------------------------------------------------------
(* C19 *)

\* the name of an image file without its image extension
ImageBase(filename) ==
    CHOOSE base \in {SubSeq(filename, 1, n) : n \in 0..Len(filename)} :
        \E i \in 1..Len(ImageExts) : filename = base \o ImageExts[i]

\* the text of a report file as it is
AsStored(text) == text

\* the report of an item: of <base>.txt, else of <base>.ehr.txt, else of
\* <base>.report.txt in the report directory of the item's modality and difficulty,
\* the text of the file passed through Text; "Report not found" when there is none
ReportOf(item, Text(_)) ==
    LET dir == reports[item.modality][item.difficulty]
        base == ImageBase(item.filename)
    IN  IF base \o DOT_TXT \in DOMAIN dir THEN Text(dir[base \o DOT_TXT])
        ELSE IF base \o DOT_EHR_TXT \in DOMAIN dir THEN Text(dir[base \o DOT_EHR_TXT])
        ELSE IF base \o DOT_REPORT_TXT \in DOMAIN dir THEN Text(dir[base \o DOT_REPORT_TXT])
        ELSE REPORT_NOT_FOUND

\* C19 as stated: the report shown for the current item is the contents of the first
\* of <base>.txt, <base>.ehr.txt, <base>.report.txt that exists in the report
\* directory of the item's modality and difficulty, "Report not found" when none does.
C19_ReportIsFirstCandidate ==
    \A s \in Tabs :
        tabs[s].page.view = "Reviewing" =>
            tabs[s].page.ehr_text = ReportOf(tabs[s].page.current[1], AsStored)

\* C19, amended: the report shown for the current item is the contents, with the
\* white space at their start and end removed, of the first of <base>.txt,
\* <base>.ehr.txt, <base>.report.txt that exists in the report directory of the item's
\* modality and difficulty, and "Report not found" when none exists.
C19_ReportIsFirstCandidateStripped ==
    \A s \in Tabs :
        tabs[s].page.view = "Reviewing" =>
            tabs[s].page.ehr_text = ReportOf(tabs[s].page.current[1], Strip)

\* the second candidate shown, without its trailing space, the first one missing and
\* the third present
C19_Witness ==
    /\ tabs["t1"].page.view = "Reviewing"
    /\ LET item == tabs["t1"].page.current[1]
           dir == reports[item.modality][item.difficulty]
           base == ImageBase(item.filename)
       IN  /\ base \o DOT_TXT \notin DOMAIN dir
           /\ base \o DOT_EHR_TXT \in DOMAIN dir
           /\ base \o DOT_REPORT_TXT \in DOMAIN dir
           /\ tabs["t1"].page.ehr_text = <<"e">>
           /\ dir[base \o DOT_EHR_TXT] # <<"e">>

----------------------------------------------------------------------------
(* C20 *)

\* the smaller of two numbers
Min(a, b) == IF a <= b THEN a ELSE b

\* C20: the previous labels list the last min(20, |store|) records of the store in
\* the order of the store, which is the order in which the keys were first written:
\* a step leaves the keys and their order as they are or adds one new key at the
\* end, and an edit of a listed record leaves every key at its place.
C20_HistoryIsLastRecordsInWriteOrder ==
    /\ [](tabs["t1"].page.view \in {"ViewingHistory", "AllLabeled"} =>
              LET keys == Keys(Store(tabs["t1"].doctor_id, tabs["t1"].modality))
                  listed == tabs["t1"].page.history
                  m == Min(HistoryWindow, Len(keys))
              IN  /\ Len(listed) = m
                  /\ \A i \in 1..m : listed[i] = keys[Len(keys) - m + i])
    /\ [][LET old == Keys(Store("DOC1", MODALITIES[1]))
              new == Keys(load_doctor_labels(files', "DOC1", MODALITIES[1]).labels)
          IN  /\ \/ new = old
                 \/ /\ Len(new) = Len(old) + 1
                    /\ SubSeq(new, 1, Len(old)) = old
                    /\ \A i \in 1..Len(old) : old[i] # new[Len(new)]
              /\ \A k \in HistoryEditKeys, in \in EditInputs :
                     EditLabel("t1", k, in.difficulty, in.ehr_text, in.reasoning) => new = old]_vars

\* previous labels of a store of 21 records: 20 listed, from the second record on, the
\* third record edited and still third
C20_Witness ==
    /\ tabs["t1"].page.view = "ViewingHistory"
    /\ LET store == Store(tabs["t1"].doctor_id, tabs["t1"].modality)
       IN  /\ Len(store) = HistoryWindow + 1
           /\ Len(tabs["t1"].page.history) = HistoryWindow
           /\ tabs["t1"].page.history[1] = store[2].k
           /\ StoredCategory(store[3].v) = "high"
           /\ store[3].k = make_label_key(EASY, NumberedImage(3))
           /\ store[3].v.timestamp > store[Len(store)].v.timestamp

----------------------------------------------------------------------------
(* C21 *)

\* C21: opening the previous labels from the labeling page and pressing "Back to
\* Labeling", with no edit and no other doctor or modality in between, loses nothing:
\* neither step changes a label file, and the labeling page after leaving shows the
\* item it showed before entering.
C21_HistoryRoundTripKeepsState ==
    /\ [][ViewPreviousLabels("t1") => files' = files /\ saved' = saved]_vars
    /\ [][BackToLabeling("t1") =>
            /\ files' = files /\ saved' = saved
            /\ (/\ entered["t1"] # <<>>
                /\ entered["t1"][1].doctor_id = tabs["t1"].doctor_id
                /\ entered["t1"][1].modality = tabs["t1"].modality)
               => /\ tabs'["t1"].page.view = "Reviewing"
                  /\ tabs'["t1"].page.current = entered["t1"][1].current]_vars

\* a labeling page reached by "Back to Labeling" cannot be told from others, so the
\* witness is the state before leaving: the previous labels are open, they were
\* opened from a labeling page that showed an item other than the first of the
\* catalog, and no label file was written since
C21_Witness ==
    /\ tabs["t1"].page.view = "ViewingHistory"
    /\ entered["t1"] # <<>>
    /\ entered["t1"][1].doctor_id = tabs["t1"].doctor_id
    /\ entered["t1"][1].modality = tabs["t1"].modality
    /\ entered["t1"][1].current # <<>>
    /\ entered["t1"][1].current[1] # InOrder(ItemSet(tabs["t1"].modality))[1]

----------------------------------------------------------------------------
(* C22 *)

\* the keys of the items of a modality's catalog
CatalogKeys(modality) == {ItemKey(item) : item \in ItemSet(modality)}

\* C22: the catalog fixed and the stores empty at start-up, after any sequence of
\* submits, skips, drops and edits from the previous labels every key of the store of
\* a doctor and modality is the key of an item of the catalog of that modality.
C22_KeysAreCatalogKeys ==
    \A id \in StoreIds : KeySet(Store(id[1], id[2])) \subseteq CatalogKeys(id[2])

\* a store with a skipped or dropped item and an item whose rating was edited
C22_Witness ==
    LET store == Store("DOC1", "CXR")
    IN  /\ \E i \in 1..Len(store) : StoredCategory(store[i].v) \in SkipMarks
        /\ \E i \in 1..Len(store) : StoredCategory(store[i].v) = "high"

----------------------------------------------------------------------------
(* C23 *)

\* C23: every submit of a tab stores its record under the key of the item the tab
\* displayed when the button was pressed, also when another tab of the same doctor
\* and modality labeled that item after the page was rendered; no key enters the
\* store other than the key of the item displayed by the submitting tab.
C23_SubmitLabelsDisplayedItem ==
    [][\A s \in Tabs, in \in SubmitInputs :
           (Submit(s, in.difficulty, in.ehr_text, in.reasoning) /\ files' # files) =>
               LET displayed == ItemKey(tabs[s].page.current[1])
                   old == Store(tabs[s].doctor_id, tabs[s].modality)
                   new == load_doctor_labels(files', tabs[s].doctor_id, tabs[s].modality).labels
               IN  /\ HasKey(new, displayed)
                   /\ Lookup(new, displayed).timestamp = clock
                   /\ KeySet(new) \ KeySet(old) \subseteq {displayed}]_vars

----------------------------------------------------------------------------
(* C24 *)

\* the keys of old that new does not hold with the same record
ChangedKeys(old, new) ==
    {k \in KeySet(old) : ~HasKey(new, k) \/ Lookup(new, k) # Lookup(old, k)}

\* C24: the operations of the tabs of one doctor and modality interleaved as whole
\* operations, no update is lost: every step of a tab, a submit or an edit from a
\* page rendered before writes of the other tab among them, keeps every key of the
\* store and every record but the one of the key it writes.
C24_WholeOperationsLoseNoUpdate ==
    [][\A id \in StoreIds :
           LET old == Store(id[1], id[2])
               new == load_doctor_labels(files', id[1], id[2]).labels
           IN  /\ KeySet(old) \subseteq KeySet(new)
               /\ Cardinality(ChangedKeys(old, new)) <= 1
               /\ \A k \in ChangedKeys(old, new) : Lookup(new, k).timestamp = clock]_vars

\* both tabs logged in, a record stored by a submit and, before it in the store, a
\* record that was edited later
C24_Witness ==
    LET store == Store("DOC1", "CXR")
    IN  /\ \A s \in Tabs : Authenticated(s)
        /\ Len(store) = 2
        /\ store[1].v.timestamp > store[2].v.timestamp
        /\ StoredCategory(store[1].v) = "high"
        /\ tabs["t1"].page.view # tabs["t2"].page.view

----------------------------------------------------------------------------
(* C25 *)

\* C25: in every reachable state, image files of labeled items removed from the
\* directories included, the number of records of a store is at most the number of
\* items of the catalog of its modality, and the progress a run of main() computes
\* for a logged-in tab is a fraction between 0 and 1.
C25_ProgressWithinUnit ==
    \A s \in Tabs :
        Authenticated(s) =>
            LET store == Store(tabs[s].doctor_id, tabs[s].modality)
                p == progress(store, load_image_data(images, tabs[s].modality))
            IN  /\ Len(store) <= Cardinality(ItemSet(tabs[s].modality))
                /\ 0 <= p.num /\ p.num <= p.den

----------------------------------------------------------------------------
(* C26 *)

\* a record written by save_label, not one found in a label file at start-up
Written(rec) == rec.timestamp >= 1

\* C26: every record written by a submit or by an edit from the previous labels
\* agrees with its key and its store: its difficulty field, "/" and its filename
\* field make up the key, and its modality field is the modality of the store.
C26_RecordsMatchTheirKey ==
    \A id \in StoreIds :
        LET store == Store(id[1], id[2])
        IN  \A i \in 1..Len(store) :
                Written(store[i].v) =>
                    /\ store[i].v.difficulty \o <<"/">> \o store[i].v.filename = store[i].k
                    /\ store[i].v.modality = id[2]

\* a record written by a submit in the store of one modality and a record rewritten
\* by an edit in the store of the other
C26_Witness ==
    LET first == Store("DOC1", MODALITIES[1])
        second == Store("DOC1", MODALITIES[2])
    IN  /\ \E i \in 1..Len(first) :
               Written(first[i].v) /\ StoredCategory(first[i].v) \in {"low"} \cup SkipMarks
        /\ \E i \in 1..Len(second) :
               Written(second[i].v) /\ StoredCategory(second[i].v) = "high"

----------------------------------------------------------------------------
(* C27 *)

\* the entries of a list are pairwise distinct and none is empty
DistinctAndNonEmpty(wl) ==
    /\ \A i, j \in 1..Len(wl) : i # j => wl[i] # wl[j]
    /\ \A i \in 1..Len(wl) : wl[i] # <<>>

\* C27: after any sequence of add_doctor_id calls, from interactive entry, random
\* generation, a text file or a CSV file, white space around the ids included, the
\* entries of the generator's whitelist and of the whitelist file it saves are
\* pairwise distinct and not empty.
C27_WhitelistEntriesDistinct ==
    /\ DistinctAndNonEmpty(generator.whitelist)
    /\ DistinctAndNonEmpty(whitelist.list)

====
